---- MODULE Spec2Model ----
(***************************************************************************)
(* A model of the simhash near-duplicate search core (src/src/simhash.cpp, *)
(* src/include/simhash.h).                                                 *)
(*                                                                         *)
(* A hash_t (uint64_t) is represented by the set of its set bit positions, *)
(* a subset of 0..63: AND is intersection, OR is union, XOR is symmetric   *)
(* difference, a shift moves every position and drops those that leave the *)
(* word, and the unsigned order compares the highest differing bit.        *)
(***************************************************************************)
EXTENDS Integers, Sequences, FiniteSets, TLC

\* static const size_t BITS = sizeof(hash_t) * 8
BITS == 64

(***************************************************************************)
(* Bounds of the model                                                     *)
(***************************************************************************)
\* largest number_of_blocks tried (besides BITS + 1, the failing one)
MaxBlocks == 4
\* largest different_bits tried
MaxDiff == 2
\* largest size of the input set of hashes
MaxHashes == 4
\* largest length of the feature sequence passed to compute
MaxFeatures == 3
\* number of parallel workers of the intra-run pair loop
NumWorkers == 2
\* largest input set and largest parameters of the runs with parallel workers
MaxParHashes == 3
MaxParBlocks == 3
MaxParDiff == 2

(***************************************************************************)
(* 64-bit words as sets of bit positions                                   *)
(***************************************************************************)
Min(S) == CHOOSE x \in S : \A y \in S : x <= y
Max(S) == CHOOSE x \in S : \A y \in S : x >= y

\* a ^ b
Xor(a, b) == (a \ b) \cup (b \ a)
\* h << n on a 64-bit word, 0 <= n < 64
Shl(h, n) == {k + n : k \in {x \in h : x + n < BITS}}
\* h >> n on a 64-bit word, 0 <= n < 64
Shr(h, n) == {k - n : k \in {x \in h : x >= n}}
\* a < b on unsigned 64-bit words
Less(a, b) == a # b /\ Max(Xor(a, b)) \in b
\* std::min, std::max on hash_t
MinHash(a, b) == IF Less(b, a) THEN b ELSE a
MaxHash(a, b) == IF Less(a, b) THEN b ELSE a

\* all orders in which a finite set can be enumerated
RECURSIVE Orders(_)
Orders(S) ==
  IF S = {} THEN {<<>>}
  ELSE UNION {{<<x>> \o o : o \in Orders(S \ {x})} : x \in S}

Range(s) == {s[k] : k \in 1..Len(s)}

(***************************************************************************)
(* Simhash::num_differing_bits                                             *)
(***************************************************************************)
\* n - 1 for n # 0: the borrow clears the lowest set bit and sets the bits below
Decrement(n) == (n \ {Min(n)}) \cup (0..(Min(n) - 1))

\* n = n >> 1, the step of a loop that tests one bit per round
ClearLowestShift(n) == Shr(n, 1)

\* n = n & (n - 1)
ClearLowest(n) == n \cap Decrement(n)

\* while (n) { ++count; n = n & (n - 1); }
RECURSIVE KernighanLoop(_, _)
KernighanLoop(n, count) ==
  IF n = {} THEN count
  ELSE KernighanLoop(ClearLowest(n), count + 1)

num_differing_bits(a, b) == KernighanLoop(Xor(a, b), 0)

(***************************************************************************)
(* Simhash::compute                                                        *)
(***************************************************************************)
\* counts[i] += (hash & 1) ? 1 : -1; hash >>= 1;   for i = 0..BITS-1
CountHash(counts, hash) ==
  [i \in 0..(BITS - 1) |-> counts[i] + (IF 0 \in Shr(hash, i) THEN 1 ELSE -1)]

RECURSIVE CountLoop(_, _, _)
CountLoop(hashes, k, counts) ==
  IF k > Len(hashes) THEN counts
  ELSE CountLoop(hashes, k + 1, CountHash(counts, hashes[k]))

\* the test with >= in place of >
CountNonNegative(c) == c >= 0

\* if (counts[i] > 0) result |= 1 << i
CountPositive(c) == c > 0

compute(hashes) ==
  LET counts == CountLoop(hashes, 1, [i \in 0..(BITS - 1) |-> 0])
  IN {i \in 0..(BITS - 1) : CountPositive(counts[i])}

(***************************************************************************)
(* Simhash::Permutation                                                    *)
(***************************************************************************)
\* the offset as the constructor's comment writes it: 62 - width - i
BlockOffsetOfComment(width, i) == 62 - width - i

\* the offset of a block: int offset = 64 - width - i
BlockOffset(width, i) == 64 - width - i

\* mask << offset if offset > 0, mask >> -offset otherwise
ShiftBy(mask, offset) ==
  IF offset > 0 THEN Shl(mask, offset) ELSE Shr(mask, -offset)

\* the inverse shift used by reverse
UnshiftBy(mask, offset) ==
  IF offset > 0 THEN Shr(mask, offset) ELSE Shl(mask, -offset)

\* for (i = 0; !((1UL << i) & mask); ++i) {}    the rightmost set bit
MaskLow(mask) == Min(mask)

\* for (j = i; j < 64 && ((1UL << j) & mask); ++j) {}
MaskHigh(mask) ==
  LET i == MaskLow(mask)
      clear == {x \in i..(BITS - 1) : x \notin mask}
  IN IF clear = {} THEN BITS ELSE Min(clear)

\* width += (j - i), after the k-th mask of the list
RECURSIVE RunningWidth(_, _)
RunningWidth(masks, k) ==
  IF k = 0 THEN 0
  ELSE RunningWidth(masks, k - 1) + (MaskHigh(masks[k]) - MaskLow(masks[k]))

\* the width loop with <= in place of <: one block too many
RECURSIVE SearchWidthInclusive(_, _, _, _)
SearchWidthInclusive(widths, different_bits, k, width) ==
  IF different_bits <= Len(widths) /\ k <= Len(widths)
  THEN SearchWidthInclusive(widths, different_bits + 1, k + 1, width + widths[k])
  ELSE width

\* for (width = 0; different_bits < widths.size(); ++different_bits, ++width_it)
\*   width += *width_it;
RECURSIVE SearchWidth(_, _, _, _)
SearchWidth(widths, different_bits, k, width) ==
  IF different_bits < Len(widths)
  THEN SearchWidth(widths, different_bits + 1, k + 1, width + widths[k])
  ELSE width

\* the search mask left in the low bits: the second loop forgotten
SearchMaskLow(width) == 0..(width - 1)

\* width ones shifted in from the right, then shifted up to a full word
SearchMaskOf(width) == Shl(0..(width - 1), BITS - width)

\* Permutation::Permutation(different_bits, masks)
Permutation(different_bits, masks) ==
  LET widths == [k \in 1..Len(masks) |-> MaskHigh(masks[k]) - MaskLow(masks[k])]
      offsets == [k \in 1..Len(masks) |->
                    BlockOffset(RunningWidth(masks, k), MaskLow(masks[k]))]
  IN [forward_masks |-> masks,
      reverse_masks |-> [k \in 1..Len(masks) |-> ShiftBy(masks[k], offsets[k])],
      offsets |-> offsets,
      search_mask_ |-> SearchMaskOf(SearchWidth(widths, different_bits, 1, 0))]

\* apply with the loop stopped one mask early
applySkipLast(p, hash) ==
  UNION {ShiftBy(hash \cap p.forward_masks[k], p.offsets[k]) :
           k \in 1..(Len(p.forward_masks) - 1)}

\* Permutation::apply
apply(p, hash) ==
  UNION {ShiftBy(hash \cap p.forward_masks[k], p.offsets[k]) :
           k \in 1..Len(p.forward_masks)}

\* Permutation::reverse
reverse(p, hash) ==
  UNION {UnshiftBy(hash \cap p.reverse_masks[k], p.offsets[k]) :
           k \in 1..Len(p.reverse_masks)}

\* Permutation::search_mask
search_mask(p) == p.search_mask_

\* blocks of BITS / B bits each, the remainder of the division left out
BlockMasksEqualWidth(number_of_blocks) ==
  [b \in 1..number_of_blocks |->
     {j \in 0..(BITS - 1) :
        /\ j >= (b - 1) * (BITS \div number_of_blocks)
        /\ j < b * (BITS \div number_of_blocks)}]

\* the block masks built by create: block i covers [i*BITS/B, (i+1)*BITS/B)
BlockMasks(number_of_blocks) ==
  [b \in 1..number_of_blocks |->
     {j \in 0..(BITS - 1) :
        /\ j >= ((b - 1) * BITS) \div number_of_blocks
        /\ j < (b * BITS) \div number_of_blocks}]

\* the body of the while (true) loop of choose; indices holds 0-based values
RECURSIVE ChooseLoop(_, _, _, _)
ChooseLoop(population, r, indices, results) ==
  LET n == Len(population)
      cand == {i \in 0..(r - 1) : indices[i + 1] # i + n - r}
  IN IF cand = {} THEN results
     ELSE LET i == Max(cand)
              next == [j \in 1..r |->
                         IF j - 1 < i THEN indices[j]
                         ELSE indices[i + 1] + 1 + (j - 1 - i)]
              result == [j \in 1..r |-> population[next[j] + 1]]
          IN ChooseLoop(population, r, next, Append(results, result))

\* choose without the push_back of the first combination before the loop
chooseAfterFirst(population, r) ==
  ChooseLoop(population, r, [j \in 1..r |-> j - 1], <<>>)

\* Permutation::choose(population, r), for r <= population.size()
choose(population, r) ==
  LET indices == [j \in 1..r |-> j - 1]
      result == [j \in 1..r |-> population[indices[j] + 1]]
  IN ChooseLoop(population, r, indices, <<result>>)

\* the second throw with < in place of <=
CreateThrowsStrict(number_of_blocks, different_bits) ==
  \/ number_of_blocks > BITS
  \/ number_of_blocks < different_bits

\* a third throw for different_bits == 0
CreateThrowsZero(number_of_blocks, different_bits) ==
  \/ number_of_blocks > BITS
  \/ number_of_blocks <= different_bits
  \/ different_bits = 0

\* the two throws of create
CreateThrows(number_of_blocks, different_bits) ==
  \/ number_of_blocks > BITS
  \/ number_of_blocks <= different_bits

\* the remaining masks appended to a choice, in block order
Complete(choice, blocks) ==
  choice \o SelectSeq(blocks, LAMBDA block : block \notin Range(choice))

\* Permutation::create, when it does not throw
create(number_of_blocks, different_bits) ==
  LET blocks == BlockMasks(number_of_blocks)
      count == number_of_blocks - different_bits
      choices == choose(blocks, count)
  IN [c \in 1..Len(choices) |->
        Permutation(different_bits, Complete(choices[c], blocks))]


(***************************************************************************)
(* Simhash::find_all                                                       *)
(***************************************************************************)
\* the elements of a set in one fixed enumeration order (the iteration order
\* of the unordered_set; std::sort makes the buffer independent of it)
RECURSIVE Enumerate(_)
Enumerate(S) ==
  IF S = {} THEN <<>>
  ELSE LET x == CHOOSE y \in S : TRUE
       IN <<x>> \o Enumerate(S \ {x})

\* std::sort(copy.begin(), copy.end()): insertion of v into an ascending s
RECURSIVE InsertSorted(_, _)
InsertSorted(s, v) ==
  IF s = <<>> THEN <<v>>
  ELSE IF Less(v, Head(s)) THEN <<v>> \o s
       ELSE <<Head(s)>> \o InsertSorted(Tail(s), v)

RECURSIVE sort(_)
sort(s) == IF s = <<>> THEN <<>> ELSE InsertSorted(sort(Tail(s)), Head(s))

\* The two buffers find_all works on: the caller's set and the local vector.
\* std::vector<hash_t> copy(hashes.begin(), hashes.end())
InitialBuffers(hashes) == [hashes |-> hashes, copy |-> Enumerate(hashes)]

\* the in-place variant of transform, writing the permuted words back into
\* the caller's set
TransformInPlace(mem, p) ==
  [hashes |-> {apply(p, h) : h \in mem.hashes}, copy |-> mem.copy]

\* std::transform(hashes.begin(), hashes.end(), copy.begin(), op)
transform(mem, p) ==
  LET src == Enumerate(mem.hashes)
  IN [hashes |-> mem.hashes,
      copy |-> [k \in 1..Len(mem.copy) |->
                  IF k <= Len(src) THEN apply(p, src[k]) ELSE mem.copy[k]]]

\* the run scan comparing whole words, the & mask left out
RunEndUnmasked(copy, mask, start) ==
  LET stop == {e \in start..Len(copy) : copy[e] # copy[start]}
  IN IF stop = {} THEN Len(copy) + 1 ELSE Min(stop)

\* for (; end != copy.end() && (*end & mask) == prefix; ++end)
RunEnd(copy, mask, start) ==
  LET prefix == copy[start] \cap mask
      stop == {e \in start..Len(copy) : (copy[e] \cap mask) # prefix}
  IN IF stop = {} THEN Len(copy) + 1 ELSE Min(stop)

\* the distance test off by one
WithinDistanceLoose(a, b, different_bits) ==
  num_differing_bits(a, b) <= different_bits + 1

\* if (num_differing_bits(*a, *b) <= different_bits)
WithinDistance(a, b, different_bits) ==
  num_differing_bits(a, b) <= different_bits

\* the pair in the order the sorted buffer gives
MakeMatchUnordered(a_raw, b_raw) == <<a_raw, b_raw>>

\* std::make_pair(std::min(a_raw, b_raw), std::max(a_raw, b_raw))
MakeMatch(a_raw, b_raw) == <<MinHash(a_raw, b_raw), MaxHash(a_raw, b_raw)>>

\* the inner loop started at b = a in place of b = a + 1
RunMatchesFromSelf(p, copy, start, end, different_bits) ==
  {MakeMatch(reverse(p, copy[a]), reverse(p, copy[b])) :
     <<a, b>> \in {ab \in (start..(end - 1)) \X (start..(end - 1)) :
                     /\ ab[1] <= ab[2]
                     /\ WithinDistance(copy[ab[1]], copy[ab[2]], different_bits)}}

\* the pairs inserted by the double loop over [start, end)
RunMatches(p, copy, start, end, different_bits) ==
  {MakeMatch(reverse(p, copy[a]), reverse(p, copy[b])) :
     <<a, b>> \in {ab \in (start..(end - 1)) \X (start..(end - 1)) :
                     /\ ab[1] < ab[2]
                     /\ WithinDistance(copy[ab[1]], copy[ab[2]], different_bits)}}

\* while (start != copy.end()) { ...; start = end; }
RECURSIVE Sweep(_, _, _, _, _)
Sweep(p, copy, start, different_bits, acc) ==
  IF start > Len(copy) THEN acc
  ELSE LET end == RunEnd(copy, search_mask(p), start)
       IN Sweep(p, copy, end, different_bits,
                acc \cup RunMatches(p, copy, start, end, different_bits))

\* for (size_t i = 0; i < permutations.size(); i++) { ... }
RECURSIVE PermutationLoop(_, _, _, _, _)
PermutationLoop(permutations, i, different_bits, mem, acc) ==
  IF i > Len(permutations) THEN [mem |-> mem, results |-> acc]
  ELSE LET t == transform(mem, permutations[i])
           sorted == [hashes |-> t.hashes, copy |-> sort(t.copy)]
       IN PermutationLoop(permutations, i + 1, different_bits, sorted,
                          Sweep(permutations[i], sorted.copy, 1, different_bits, acc))

\* auto permutations = Permutation::create(number_of_blocks, different_bits),
\* tabulated once for the parameters tried
Families ==
  [bd \in {x \in ((0..MaxBlocks) \cup {BITS + 1}) \X (0..MaxDiff) :
             ~CreateThrows(x[1], x[2])} |-> create(bd[1], bd[2])]

\* find_all(hashes, number_of_blocks, different_bits): the status, the match
\* set returned and the two buffers as the call leaves them
find_all(S, B, d) ==
  IF CreateThrows(B, d)
  THEN [status |-> "invalid_argument", results |-> {}, mem |-> InitialBuffers(S)]
  ELSE LET r == PermutationLoop(Families[<<B, d>>], 1, d, InitialBuffers(S), {})
       IN [status |-> "ok", results |-> r.results, mem |-> r.mem]

(***************************************************************************)
(* Simhash::find_clusters                                                  *)
(***************************************************************************)
\* the vertices of a match set
Endpoints(matches) == {m[1] : m \in matches} \cup {m[2] : m \in matches}

\* the adjacency with only nodes[match.first].insert(match.second)
AdjacencyOneWay(matches) ==
  [v \in Endpoints(matches) |-> {m[2] : m \in {x \in matches : x[1] = v}}]

\* nodes[match.first].insert(match.second); nodes[match.second].insert(match.first)
Adjacency(matches) ==
  [v \in Endpoints(matches) |->
     {m[2] : m \in {x \in matches : x[1] = v}} \cup
     {m[1] : m \in {x \in matches : x[2] = v}}]

\* the push loop without the test of visited[hash]
UnvisitedOrNot(adj, vis, neighbor) == adj[neighbor]

\* for (hash : nodes[neighbor]) if (!visited[hash]) frontier.push_back(hash)
Unvisited(adj, vis, neighbor) == {hash \in adj[neighbor] : ~vis[hash]}

(***************************************************************************)
(* Inputs                                                                  *)
(***************************************************************************)
\* 0xAAAAAAAAAAAAAAAA
Alternating == {k \in 0..(BITS - 1) : k % 2 = 1}

\* the fingerprints the input sets are drawn from
Pool ==
  {{}, {0}, {0, 1}, {0, 1, 2}, {63}, {20, 40},
   Alternating, Xor(Alternating, {0})}

HashSets == {S \in SUBSET Pool : Cardinality(S) <= MaxHashes}
BlockChoices == (0..MaxBlocks) \cup {BITS + 1}
DiffChoices == 0..MaxDiff

(***************************************************************************)
(* State                                                                   *)
(***************************************************************************)
VARIABLES
  pc,                \* where the caller is
  hashes,            \* the caller's std::unordered_set<hash_t>
  number_of_blocks,  \* argument of find_all / find_clusters / create
  different_bits,    \* argument of find_all / find_clusters / create
  copy,              \* find_all's local vector
  results,           \* the match set
  status,            \* "none", "ok" or "invalid_argument" (std::invalid_argument)
  nodes,             \* find_clusters: adjacency map
  visited,           \* find_clusters: visited map
  todo,              \* find_clusters: keys of nodes the outer loop has not reached
  clusters,          \* find_clusters: the clusters pushed so far
  cluster,           \* find_clusters: the cluster being built
  frontier,          \* find_clusters: the BFS list
  placed,            \* history: how often each vertex was put on the frontier
  features,          \* compute: the argument
  fingerprint,       \* compute: the value returned
  permutations,      \* the vector returned by Permutation::create
  word,              \* a hash_t given to apply and to reverse
  permuted,          \* apply(word)
  unpermuted,        \* reverse(apply(word))
  preimage,          \* reverse(word)
  reapplied,         \* apply(reverse(word))
  word_b,            \* a second hash_t given to apply
  permuted_b,        \* apply(word_b)
  perm_i,            \* find_all: the index i of the permutation loop
  start,             \* find_all: iterator start, as an index into copy
  run_end,           \* find_all: iterator end, as an index into copy
  next_a,            \* parallel for: the next iteration a not yet handed out
  wpc,               \* parallel for: each worker's position
  wa,                \* parallel for: each worker's a
  wb,                \* parallel for: each worker's b
  wseen,             \* each worker's view of results inside results.insert
  mt,                \* std::mutex mt: 0 when free, else the worker holding it
  runs,              \* history: the runs [start, end) of this permutation's sweep
  compared,          \* history: the index pairs (a, b) given to the distance test
  tests,             \* history: the number of distance tests of this permutation
  bits_a,            \* num_differing_bits: the argument a
  bits_b,            \* num_differing_bits: the argument b
  bits_n,            \* num_differing_bits: the local n
  bits_count         \* num_differing_bits: the local count

callVars == <<pc, hashes, number_of_blocks, different_bits, copy, results, status>>
clusterVars == <<nodes, visited, todo, clusters, cluster, frontier, placed>>
foldVars == <<features, fingerprint>>
permVars ==
  <<permutations, word, permuted, unpermuted, preimage, reapplied, word_b, permuted_b>>
sweepVars == <<runs, compared, tests>>
parVars == <<perm_i, start, run_end, next_a, wpc, wa, wb, wseen, mt, sweepVars>>
bitVars == <<bits_a, bits_b, bits_n, bits_count>>

vars == <<callVars, clusterVars, foldVars, permVars, parVars, bitVars>>

Workers == 1..NumWorkers

Init ==
  /\ pc = "start"
  /\ hashes = {}
  /\ number_of_blocks = 0
  /\ different_bits = 0
  /\ copy = <<>>
  /\ results = {}
  /\ status = "none"
  /\ nodes = <<>>
  /\ visited = <<>>
  /\ todo = {}
  /\ clusters = <<>>
  /\ cluster = {}
  /\ frontier = <<>>
  /\ placed = <<>>
  /\ features = <<>>
  /\ fingerprint = {}
  /\ permutations = <<>>
  /\ word = {}
  /\ permuted = {}
  /\ unpermuted = {}
  /\ preimage = {}
  /\ reapplied = {}
  /\ word_b = {}
  /\ permuted_b = {}
  /\ perm_i = 0
  /\ start = 0
  /\ run_end = 0
  /\ next_a = 0
  /\ wpc = [w \in Workers |-> "idle"]
  /\ wa = [w \in Workers |-> 0]
  /\ wb = [w \in Workers |-> 0]
  /\ wseen = [w \in Workers |-> {}]
  /\ mt = 0
  /\ runs = <<>>
  /\ compared = {}
  /\ tests = 0
  /\ bits_a = {}
  /\ bits_b = {}
  /\ bits_n = {}
  /\ bits_count = 0

(***************************************************************************)
(* The entry points find_all and find_clusters, called on a set of hashes  *)
(***************************************************************************)
\* main: read_hashes fills the set the entry points are called with
read_hashes ==
  /\ pc = "start"
  /\ \E S \in HashSets : hashes' = S
  /\ pc' = "ready"
  /\ UNCHANGED <<number_of_blocks, different_bits, copy, results, status>>
  /\ UNCHANGED <<clusterVars, foldVars, permVars, parVars, bitVars>>

\* a call of find_all, by the caller or by find_clusters, that throws or returns
FindAllCall ==
  /\ pc = "ready"
  /\ \E B \in BlockChoices, d \in DiffChoices :
       \E r \in {find_all(hashes, B, d)} :
          /\ number_of_blocks' = B
          /\ different_bits' = d
          /\ hashes' = r.mem.hashes
          /\ copy' = r.mem.copy
          /\ results' = r.results
          /\ status' = r.status
  /\ pc' = "find_all_done"
  /\ UNCHANGED <<clusterVars, foldVars, permVars, parVars, bitVars>>

\* find_clusters: its call of find_all threw, and so does find_clusters
FindClustersThrow ==
  /\ pc = "find_all_done"
  /\ status = "invalid_argument"
  /\ pc' = "find_clusters_done"
  /\ UNCHANGED <<hashes, number_of_blocks, different_bits, copy, results, status>>
  /\ UNCHANGED <<clusterVars, foldVars, permVars, parVars, bitVars>>

\* find_clusters: its call of find_all returned; the loop over the matches
FindClustersBuild ==
  /\ pc = "find_all_done"
  /\ status = "ok"
  /\ nodes' = Adjacency(results)
  /\ visited' = [v \in Endpoints(results) |-> FALSE]
  /\ todo' = Endpoints(results)
  /\ placed' = [v \in Endpoints(results) |-> 0]
  /\ pc' = "clusters_loop"
  /\ UNCHANGED <<hashes, number_of_blocks, different_bits, copy, results, status>>
  /\ UNCHANGED <<clusters, cluster, frontier>>
  /\ UNCHANGED <<foldVars, permVars, parVars, bitVars>>

\* for (node : nodes) if (visited[node.first]) continue;
SkipVisited ==
  /\ pc = "clusters_loop"
  /\ \E node \in todo :
       /\ visited[node]
       /\ todo' = todo \ {node}
  /\ UNCHANGED <<nodes, visited, clusters, cluster, frontier, placed>>
  /\ UNCHANGED <<callVars, foldVars, permVars, parVars, bitVars>>

\* visited[node.first] = true; cluster({node.first}); frontier(node.second)
StartCluster ==
  /\ pc = "clusters_loop"
  /\ \E node \in todo :
       /\ ~visited[node]
       /\ todo' = todo \ {node}
       /\ visited' = [visited EXCEPT ![node] = TRUE]
       /\ cluster' = {node}
       /\ \E order \in Orders(nodes[node]) : frontier' = order
       /\ placed' = [v \in DOMAIN placed |->
                       placed[v] + (IF v \in nodes[node] THEN 1 ELSE 0)]
  /\ pc' = "bfs"
  /\ UNCHANGED <<hashes, number_of_blocks, different_bits, copy, results, status>>
  /\ UNCHANGED <<nodes, clusters>>
  /\ UNCHANGED <<foldVars, permVars, parVars, bitVars>>

\* one iteration of while (!frontier.empty())
BfsStep ==
  /\ pc = "bfs"
  /\ frontier # <<>>
  /\ LET neighbor == Head(frontier)
         vis == [visited EXCEPT ![neighbor] = TRUE]
         push == Unvisited(nodes, vis, neighbor)
     IN /\ cluster' = cluster \cup {neighbor}
        /\ visited' = [v \in DOMAIN vis |-> vis[v] \/ v \in push]
        /\ \E order \in Orders(push) : frontier' = Tail(frontier) \o order
        /\ placed' = [v \in DOMAIN placed |->
                        placed[v] + (IF v \in push THEN 1 ELSE 0)]
  /\ UNCHANGED <<nodes, todo, clusters>>
  /\ UNCHANGED <<callVars, foldVars, permVars, parVars, bitVars>>

\* clusters.push_back(cluster)
PushCluster ==
  /\ pc = "bfs"
  /\ frontier = <<>>
  /\ clusters' = Append(clusters, cluster)
  /\ pc' = "clusters_loop"
  /\ UNCHANGED <<hashes, number_of_blocks, different_bits, copy, results, status>>
  /\ UNCHANGED <<nodes, visited, todo, cluster, frontier, placed>>
  /\ UNCHANGED <<foldVars, permVars, parVars, bitVars>>

\* return clusters
ReturnClusters ==
  /\ pc = "clusters_loop"
  /\ todo = {}
  /\ pc' = "find_clusters_done"
  /\ UNCHANGED <<hashes, number_of_blocks, different_bits, copy, results, status>>
  /\ UNCHANGED <<clusterVars, foldVars, permVars, parVars, bitVars>>

Next ==
  \/ read_hashes
  \/ FindAllCall
  \/ FindClustersThrow
  \/ FindClustersBuild
  \/ SkipVisited
  \/ StartCluster
  \/ BfsStep
  \/ PushCluster
  \/ ReturnClusters

Spec == Init /\ [][Next]_vars

\* the steps of find_clusters once its call of find_all has returned
ClusterStep ==
  \/ FindClustersThrow
  \/ FindClustersBuild
  \/ SkipVisited
  \/ StartCluster
  \/ BfsStep
  \/ PushCluster
  \/ ReturnClusters

\* find_clusters is sequential code: a call that has started keeps running
SpecRun == Init /\ [][Next]_vars /\ WF_vars(ClusterStep)

(***************************************************************************)
(* compute, called on a sequence of feature hashes                         *)
(***************************************************************************)
FeaturePool == {{}, {0}, {1}, {0, 1}, {0, 63}, Alternating}

RECURSIVE SeqsUpTo(_, _)
SeqsUpTo(S, n) ==
  IF n = 0 THEN {<<>>}
  ELSE LET shorter == SeqsUpTo(S, n - 1)
       IN shorter \cup {Append(q, x) : q \in {t \in shorter : Len(t) = n - 1}, x \in S}

ComputeCall ==
  /\ pc = "start"
  /\ \E hs \in SeqsUpTo(FeaturePool, MaxFeatures) :
       /\ features' = hs
       /\ fingerprint' = compute(hs)
  /\ pc' = "compute_done"
  /\ UNCHANGED <<hashes, number_of_blocks, different_bits, copy, results, status>>
  /\ UNCHANGED <<clusterVars, permVars, parVars, bitVars>>

NextFold == ComputeCall

SpecFold == Init /\ [][NextFold]_vars

\* the words given to num_differing_bits, apply and reverse
Words == Pool \cup {{k} : k \in 0..(BITS - 1)} \cup {0..(BITS - 1)}

(***************************************************************************)
(* num_differing_bits, called on two words and run one iteration at a time *)
(***************************************************************************)
\* hash_t n = a ^ b; size_t count = 0;
DiffCall ==
  /\ pc = "start"
  /\ \E a \in Words, b \in Words :
       /\ bits_a' = a
       /\ bits_b' = b
       /\ bits_n' = Xor(a, b)
  /\ bits_count' = 0
  /\ pc' = "diff_loop"
  /\ UNCHANGED <<hashes, number_of_blocks, different_bits, copy, results, status>>
  /\ UNCHANGED <<clusterVars, foldVars, permVars, parVars>>

\* while (n) { ++count; n = n & (n - 1); }
DiffStep ==
  /\ pc = "diff_loop"
  /\ bits_n # {}
  /\ bits_count' = bits_count + 1
  /\ bits_n' = ClearLowest(bits_n)
  /\ UNCHANGED <<bits_a, bits_b>>
  /\ UNCHANGED <<callVars, clusterVars, foldVars, permVars, parVars>>

\* return count;
DiffReturn ==
  /\ pc = "diff_loop"
  /\ bits_n = {}
  /\ pc' = "diff_done"
  /\ UNCHANGED <<hashes, number_of_blocks, different_bits, copy, results, status>>
  /\ UNCHANGED <<clusterVars, foldVars, permVars, parVars, bitVars>>

NextBits ==
  \/ DiffCall
  \/ DiffStep
  \/ DiffReturn

SpecBits == Init /\ [][NextBits]_vars

(***************************************************************************)
(* Permutation::create, then apply and reverse of its permutations         *)
(***************************************************************************)
\* the valid parameters tried: every number of blocks from 1 to BITS with no
\* differing bit, up to MaxBlocks blocks with every distance, and BITS blocks
\* with one differing bit (the family of C(64, d) permutations being too
\* large beyond that)
PermParams ==
  {bd \in (1..BITS) \X DiffChoices :
     /\ ~CreateThrows(bd[1], bd[2])
     /\ (bd[1] > MaxBlocks => bd[2] <= (IF bd[1] = BITS THEN 1 ELSE 0))}

CreateCall ==
  /\ pc = "start"
  /\ \E bd \in PermParams :
       /\ number_of_blocks' = bd[1]
       /\ different_bits' = bd[2]
       /\ permutations' = create(bd[1], bd[2])
  /\ status' = "ok"
  /\ pc' = "created"
  /\ UNCHANGED <<hashes, copy, results>>
  /\ UNCHANGED <<word, permuted, unpermuted, preimage, reapplied, word_b, permuted_b>>
  /\ UNCHANGED <<clusterVars, foldVars, parVars, bitVars>>

ApplyReverse ==
  /\ pc = "created"
  /\ \E i \in 1..Len(permutations), h \in Words :
       /\ perm_i' = i
       /\ word' = h
       /\ permuted' = apply(permutations[i], h)
       /\ unpermuted' = reverse(permutations[i], apply(permutations[i], h))
       /\ preimage' = reverse(permutations[i], h)
       /\ reapplied' = apply(permutations[i], reverse(permutations[i], h))
  /\ pc' = "applied"
  /\ UNCHANGED <<hashes, number_of_blocks, different_bits, copy, results, status>>
  /\ UNCHANGED <<permutations, start, run_end, next_a, wpc, wa, wb, wseen, mt>>
  /\ UNCHANGED sweepVars
  /\ UNCHANGED <<word_b, permuted_b>>
  /\ UNCHANGED <<clusterVars, foldVars, bitVars>>

\* the second words given to apply together with a word of Words
PairWords == {{}, {0, 63}, Alternating}

\* one permutation applied to two words, as find_all's transform does to the
\* words its distance test then compares
ApplyPair ==
  /\ pc = "created"
  /\ \E i \in 1..Len(permutations), a \in Words, b \in PairWords :
       /\ perm_i' = i
       /\ word' = a
       /\ permuted' = apply(permutations[i], a)
       /\ word_b' = b
       /\ permuted_b' = apply(permutations[i], b)
  /\ pc' = "paired"
  /\ UNCHANGED <<hashes, number_of_blocks, different_bits, copy, results, status>>
  /\ UNCHANGED <<permutations, start, run_end, next_a, wpc, wa, wb, wseen, mt>>
  /\ UNCHANGED sweepVars
  /\ UNCHANGED <<unpermuted, preimage, reapplied>>
  /\ UNCHANGED <<clusterVars, foldVars, bitVars>>

NextPerm ==
  \/ CreateCall
  \/ ApplyReverse
  \/ ApplyPair

SpecPerm == Init /\ [][NextPerm]_vars


(***************************************************************************)
(* find_all with the pair loop of each run on parallel workers             *)
(*   #pragma omp parallel for default(shared)                              *)
(* Iterations a of the outer loop are handed to the workers one at a time, *)
(* in increasing order; a worker runs the inner loop over b for its a.     *)
(* results.insert is a read of the set followed by a write of it.          *)
(***************************************************************************)
ParPool == {{}, {0}, {0, 1}, {63}, {0, 63}}

ParHashSets == {S \in SUBSET ParPool : Cardinality(S) <= MaxParHashes}

ParParams ==
  {bd \in (1..MaxParBlocks) \X (0..MaxParDiff) : ~CreateThrows(bd[1], bd[2])}

\* a lock that never waits
MutexIgnored(m) == TRUE

\* mt.lock() returns only when no thread holds the mutex
MutexFree(m) == m = 0

\* the positions of a worker inside the critical section
InCritical == {"insert_read", "insert_write", "unlock"}

\* entry of find_all: copy(hashes.begin(), hashes.end()), results, create
ParFindAllCall ==
  /\ pc = "start"
  /\ \E S \in ParHashSets, bd \in ParParams :
       /\ hashes' = S
       /\ number_of_blocks' = bd[1]
       /\ different_bits' = bd[2]
       /\ copy' = InitialBuffers(S).copy
       /\ permutations' = create(bd[1], bd[2])
  /\ results' = {}
  /\ perm_i' = 1
  /\ pc' = "permute"
  /\ UNCHANGED <<status, word, permuted, unpermuted, preimage, reapplied>>
  /\ UNCHANGED <<word_b, permuted_b>>
  /\ UNCHANGED <<start, run_end, next_a, wpc, wa, wb, wseen, mt>>
  /\ UNCHANGED sweepVars
  /\ UNCHANGED <<clusterVars, foldVars, bitVars>>

\* std::transform(...); std::sort(...); start = copy.begin()
BeginPermutation ==
  /\ pc = "permute"
  /\ perm_i <= Len(permutations)
  /\ \E t \in {transform([hashes |-> hashes, copy |-> copy], permutations[perm_i])} :
       /\ hashes' = t.hashes
       /\ copy' = sort(t.copy)
  /\ start' = 1
  /\ runs' = <<>>
  /\ compared' = {}
  /\ tests' = 0
  /\ pc' = "sweep"
  /\ UNCHANGED <<number_of_blocks, different_bits, results, status>>
  /\ UNCHANGED <<perm_i, run_end, next_a, wpc, wa, wb, wseen, mt>>
  /\ UNCHANGED <<clusterVars, foldVars, permVars, bitVars>>

\* the scan for the end of the run, then the fork of the parallel region
FindRun ==
  /\ pc = "sweep"
  /\ start <= Len(copy)
  /\ run_end' = RunEnd(copy, search_mask(permutations[perm_i]), start)
  /\ next_a' = start
  /\ runs' = Append(runs, <<start, RunEnd(copy, search_mask(permutations[perm_i]), start)>>)
  /\ UNCHANGED <<compared, tests>>
  /\ pc' = "parallel"
  /\ UNCHANGED <<hashes, number_of_blocks, different_bits, copy, results, status>>
  /\ UNCHANGED <<perm_i, start, wpc, wa, wb, wseen, mt>>
  /\ UNCHANGED <<clusterVars, foldVars, permVars, bitVars>>

\* a worker takes the next iteration a and starts its inner loop at b = a + 1
Claim(w) ==
  /\ pc = "parallel"
  /\ wpc[w] = "idle"
  /\ next_a < run_end
  /\ wa' = [wa EXCEPT ![w] = next_a]
  /\ wb' = [wb EXCEPT ![w] = next_a + 1]
  /\ next_a' = next_a + 1
  /\ wpc' = [wpc EXCEPT ![w] = "test"]
  /\ UNCHANGED <<perm_i, start, run_end, wseen, mt>>
  /\ UNCHANGED sweepVars
  /\ UNCHANGED <<callVars, clusterVars, foldVars, permVars, bitVars>>

\* b != end is false: the inner loop of this a is over
InnerDone(w) ==
  /\ pc = "parallel"
  /\ wpc[w] = "test"
  /\ wb[w] = run_end
  /\ wpc' = [wpc EXCEPT ![w] = "idle"]
  /\ UNCHANGED <<perm_i, start, run_end, next_a, wa, wb, wseen, mt>>
  /\ UNCHANGED sweepVars
  /\ UNCHANGED <<callVars, clusterVars, foldVars, permVars, bitVars>>

\* the distance test fails: ++b
TestFar(w) ==
  /\ pc = "parallel"
  /\ wpc[w] = "test"
  /\ wb[w] < run_end
  /\ ~WithinDistance(copy[wa[w]], copy[wb[w]], different_bits)
  /\ wb' = [wb EXCEPT ![w] = wb[w] + 1]
  /\ compared' = compared \cup {<<wa[w], wb[w]>>}
  /\ tests' = tests + 1
  /\ UNCHANGED runs
  /\ UNCHANGED <<perm_i, start, run_end, next_a, wpc, wa, wseen, mt>>
  /\ UNCHANGED <<callVars, clusterVars, foldVars, permVars, bitVars>>

\* the distance test succeeds: a_raw, b_raw are computed, next is mt.lock()
TestNear(w) ==
  /\ pc = "parallel"
  /\ wpc[w] = "test"
  /\ wb[w] < run_end
  /\ WithinDistance(copy[wa[w]], copy[wb[w]], different_bits)
  /\ wpc' = [wpc EXCEPT ![w] = "lock"]
  /\ compared' = compared \cup {<<wa[w], wb[w]>>}
  /\ tests' = tests + 1
  /\ UNCHANGED runs
  /\ UNCHANGED <<perm_i, start, run_end, next_a, wa, wb, wseen, mt>>
  /\ UNCHANGED <<callVars, clusterVars, foldVars, permVars, bitVars>>

\* mt.lock()
Lock(w) ==
  /\ pc = "parallel"
  /\ wpc[w] = "lock"
  /\ MutexFree(mt)
  /\ mt' = w
  /\ wpc' = [wpc EXCEPT ![w] = "insert_read"]
  /\ UNCHANGED <<perm_i, start, run_end, next_a, wa, wb, wseen>>
  /\ UNCHANGED sweepVars
  /\ UNCHANGED <<callVars, clusterVars, foldVars, permVars, bitVars>>

\* results.insert(...): the set is read
InsertRead(w) ==
  /\ pc = "parallel"
  /\ wpc[w] = "insert_read"
  /\ wseen' = [wseen EXCEPT ![w] = results]
  /\ wpc' = [wpc EXCEPT ![w] = "insert_write"]
  /\ UNCHANGED <<perm_i, start, run_end, next_a, wa, wb, mt>>
  /\ UNCHANGED sweepVars
  /\ UNCHANGED <<callVars, clusterVars, foldVars, permVars, bitVars>>

\* results.insert(...): the set with the new pair is written
InsertWrite(w) ==
  /\ pc = "parallel"
  /\ wpc[w] = "insert_write"
  /\ results' = wseen[w] \cup
                  {MakeMatch(reverse(permutations[perm_i], copy[wa[w]]),
                             reverse(permutations[perm_i], copy[wb[w]]))}
  /\ wseen' = [wseen EXCEPT ![w] = {}]
  /\ wpc' = [wpc EXCEPT ![w] = "unlock"]
  /\ UNCHANGED <<hashes, number_of_blocks, different_bits, copy, status, pc>>
  /\ UNCHANGED <<perm_i, start, run_end, next_a, wa, wb, mt>>
  /\ UNCHANGED sweepVars
  /\ UNCHANGED <<clusterVars, foldVars, permVars, bitVars>>

\* mt.unlock(); ++b
Unlock(w) ==
  /\ pc = "parallel"
  /\ wpc[w] = "unlock"
  /\ mt' = 0
  /\ wb' = [wb EXCEPT ![w] = wb[w] + 1]
  /\ wpc' = [wpc EXCEPT ![w] = "test"]
  /\ UNCHANGED <<perm_i, start, run_end, next_a, wa, wseen>>
  /\ UNCHANGED sweepVars
  /\ UNCHANGED <<callVars, clusterVars, foldVars, permVars, bitVars>>

\* the end of the parallel region: every iteration is done; start = end
Join ==
  /\ pc = "parallel"
  /\ next_a = run_end
  /\ \A w \in Workers : wpc[w] = "idle"
  /\ start' = run_end
  /\ pc' = "sweep"
  /\ UNCHANGED <<hashes, number_of_blocks, different_bits, copy, results, status>>
  /\ UNCHANGED <<perm_i, run_end, next_a, wpc, wa, wb, wseen, mt>>
  /\ UNCHANGED sweepVars
  /\ UNCHANGED <<clusterVars, foldVars, permVars, bitVars>>

\* start == copy.end(): the next permutation
NextPermutation ==
  /\ pc = "sweep"
  /\ start > Len(copy)
  /\ perm_i' = perm_i + 1
  /\ pc' = "permute"
  /\ UNCHANGED <<hashes, number_of_blocks, different_bits, copy, results, status>>
  /\ UNCHANGED <<start, run_end, next_a, wpc, wa, wb, wseen, mt>>
  /\ UNCHANGED sweepVars
  /\ UNCHANGED <<clusterVars, foldVars, permVars, bitVars>>

\* return results
ParReturn ==
  /\ pc = "permute"
  /\ perm_i > Len(permutations)
  /\ status' = "ok"
  /\ pc' = "find_all_done"
  /\ UNCHANGED <<hashes, number_of_blocks, different_bits, copy, results>>
  /\ UNCHANGED <<clusterVars, foldVars, permVars, parVars, bitVars>>

NextPar ==
  \/ ParFindAllCall
  \/ BeginPermutation
  \/ FindRun
  \/ \E w \in Workers : Claim(w)
  \/ \E w \in Workers : InnerDone(w)
  \/ \E w \in Workers : TestFar(w)
  \/ \E w \in Workers : TestNear(w)
  \/ \E w \in Workers : Lock(w)
  \/ \E w \in Workers : InsertRead(w)
  \/ \E w \in Workers : InsertWrite(w)
  \/ \E w \in Workers : Unlock(w)
  \/ Join
  \/ NextPermutation
  \/ ParReturn

SpecPar == Init /\ [][NextPar]_vars


(***************************************************************************)
(* Properties                                                              *)
(***************************************************************************)
\* popcount(x XOR y), by counting
Hamming(x, y) == Cardinality(Xor(x, y))

\* find_all has returned normally (also inside find_clusters)
FindAllReturned == pc \notin {"start", "ready"} /\ status = "ok"

\* an entry point was called
Called == pc \notin {"start", "ready"}

\* the parameters make create throw
BadParameters == number_of_blocks > BITS \/ number_of_blocks <= different_bits

\* C1: when find_all returns, every pair x < y of the input set with
\* popcount(x XOR y) <= different_bits is in the match set as (x, y).
Completeness ==
  FindAllReturned =>
    \A x \in hashes, y \in hashes :
      (Less(x, y) /\ Hamming(x, y) <= different_bits) => <<x, y>> \in results

\* a returned pair at distance exactly different_bits >= 2, next to a
\* fingerprint of the input that matches nothing
CompletenessWitness ==
  /\ pc = "find_all_done" /\ status = "ok"
  /\ different_bits >= 2 /\ number_of_blocks >= 4
  /\ \E m \in results : Hamming(m[1], m[2]) = different_bits
  /\ \E h \in hashes : \A m \in results : h # m[1] /\ h # m[2]

\* C2: every returned pair (a, b) has a <= b and popcount(a XOR b) <=
\* different_bits, a and b being the un-permuted values.
Soundness ==
  FindAllReturned =>
    \A m \in results :
      /\ m[1] = m[2] \/ Less(m[1], m[2])
      /\ Hamming(m[1], m[2]) <= different_bits

\* a pair was returned by a search whose last permutation moved the words
SoundnessWitness ==
  /\ pc = "find_all_done" /\ status = "ok"
  /\ Cardinality(results) >= 2
  /\ Range(copy) # hashes

\* C3: reverse(apply(h)) = h and apply(reverse(h)) = h for every permutation
\* of the family returned by create and every word h.
RoundTrip ==
  pc = "applied" => (unpermuted = word /\ reapplied = word)

\* a word that a permutation of three or more blocks really moves
RoundTripWitness ==
  /\ pc = "applied"
  /\ number_of_blocks >= 3 /\ different_bits >= 1
  /\ permuted # word /\ preimage # word /\ permuted # preimage

\* the vertices joined to the set by a path of matches
RECURSIVE ReachFrom(_, _)
ReachFrom(set, matches) ==
  LET step == set \cup {m[2] : m \in {x \in matches : x[1] \in set}}
                  \cup {m[1] : m \in {x \in matches : x[2] \in set}}
  IN IF step = set THEN set ELSE ReachFrom(step, matches)

\* C4: the clusters returned by find_clusters are pairwise disjoint, their
\* union is the set of match endpoints, any two members of a cluster are
\* joined by a path of matches and no match joins two clusters.
ClustersAreComponents ==
  (pc = "find_clusters_done" /\ status = "ok") =>
    /\ \A i \in 1..Len(clusters), j \in 1..Len(clusters) :
         i # j => clusters[i] \cap clusters[j] = {}
    /\ UNION Range(clusters) = Endpoints(results)
    /\ \A i \in 1..Len(clusters) :
         \A x \in clusters[i] : clusters[i] \subseteq ReachFrom({x}, results)
    /\ \A m \in results : \A i \in 1..Len(clusters) :
         m[1] \in clusters[i] <=> m[2] \in clusters[i]

\* a cluster of three or more holding two members that are not a match themselves
ClustersWitness ==
  /\ pc = "find_clusters_done" /\ status = "ok"
  /\ \E i \in 1..Len(clusters) :
       /\ Cardinality(clusters[i]) >= 3
       /\ \E x \in clusters[i], y \in clusters[i] :
            x # y /\ <<x, y>> \notin results /\ <<y, x>> \notin results

\* C5: with number_of_blocks > 64 or number_of_blocks <= different_bits a
\* call fails with invalid_argument and returns no matches and no clusters.
ParameterFailure ==
  (Called /\ BadParameters) =>
    /\ status = "invalid_argument"
    /\ pc \in {"find_all_done", "find_clusters_done"}
    /\ results = {}
    /\ clusters = <<>>

\* find_clusters failed on number_of_blocks = different_bits > 0
ParameterFailureWitness ==
  /\ pc = "find_clusters_done" /\ status = "invalid_argument"
  /\ number_of_blocks = different_bits /\ number_of_blocks > 0
  /\ Cardinality(hashes) >= 2

\* C6, as claimed: a call with different_bits = 0 and 0 < number_of_blocks
\* <= 64 is reported as an invalid-argument failure.
ZeroDistanceRejected ==
  (Called /\ different_bits = 0 /\ number_of_blocks > 0 /\ number_of_blocks <= BITS)
    => status = "invalid_argument"

\* C6, amended: a call with different_bits = 0 and 0 < number_of_blocks <= 64
\* does not fail: the search runs and returns no match and no cluster.
ZeroDistanceRuns ==
  (Called /\ different_bits = 0 /\ number_of_blocks > 0 /\ number_of_blocks <= BITS)
    => /\ status = "ok"
       /\ results = {}
       /\ pc \in {"find_all_done", "find_clusters_done"} => clusters = <<>>

\* find_clusters returned from a search with different_bits = 0
ZeroDistanceWitness ==
  /\ pc = "find_clusters_done" /\ status = "ok"
  /\ different_bits = 0 /\ number_of_blocks > 1
  /\ Cardinality(hashes) >= 2

\* C7: bit i of compute(hashes) is 1 iff strictly more than half of the
\* hashes have bit i set; a tie and the empty sequence give 0.
FoldBitRule ==
  pc = "compute_done" =>
    \A i \in 0..(BITS - 1) :
      i \in fingerprint <=>
        2 * Cardinality({k \in 1..Len(features) : i \in features[k]}) > Len(features)

\* a fold with a tie on one bit and a majority on another
FoldWitness ==
  /\ pc = "compute_done"
  /\ fingerprint # {}
  /\ \E i \in 0..(BITS - 1) :
       /\ Len(features) > 0
       /\ 2 * Cardinality({k \in 1..Len(features) : i \in features[k]}) = Len(features)

\* C8: no step of find_all or find_clusters changes the caller's set of hashes.
InputPreserved == [][pc # "start" => hashes' = hashes]_vars

\* find_all returned with the scratch buffer permuted and sorted
InputPreservedWitness ==
  /\ pc = "find_all_done" /\ status = "ok"
  /\ Cardinality(hashes) >= 2
  /\ Range(copy) # hashes

\* C9: every cluster has at least two members, every member has another
\* member of its cluster within different_bits, and a fingerprint of the
\* input with no match is in no cluster.
NoIsolated ==
  (pc = "find_clusters_done" /\ status = "ok") =>
    /\ \A i \in 1..Len(clusters) :
         /\ Cardinality(clusters[i]) >= 2
         /\ \A x \in clusters[i] :
              \E y \in clusters[i] \ {x} : Hamming(x, y) <= different_bits
    /\ \A h \in hashes :
         (\A g \in hashes \ {h} : Hamming(h, g) > different_bits)
           => \A i \in 1..Len(clusters) : h \notin clusters[i]

\* clusters were returned and a fingerprint of the input was left out
NoIsolatedWitness ==
  /\ pc = "find_clusters_done" /\ status = "ok"
  /\ Len(clusters) >= 1
  /\ \E h \in hashes :
       /\ \A g \in hashes \ {h} : Hamming(h, g) > different_bits
       /\ \E g \in hashes \ {h} : Hamming(h, g) = different_bits + 1

\* C10: at most one worker is inside the results.insert critical section,
\* a worker holds the mutex exactly while it is inside, and the match set
\* returned is the one the sequential loops compute.
SerializedInserts ==
  /\ Cardinality({w \in Workers : wpc[w] \in InCritical}) <= 1
  /\ \A w \in Workers : wpc[w] \in InCritical <=> mt = w
  /\ pc = "find_all_done" =>
       /\ mt = 0
       /\ results = PermutationLoop(permutations, 1, different_bits,
                                    InitialBuffers(hashes), {}).results

\* a worker waits for the mutex while another is inside results.insert
SerializedWitness ==
  /\ pc = "parallel"
  /\ \E w \in Workers, v \in Workers :
       wpc[w] = "lock" /\ wpc[v] = "insert_write" /\ results # {}

\* C11: for every number of blocks B from 1 to 64 the masks built by create
\* are B non-empty contiguous runs, block i covering the bit positions from
\* floor(i*64/B) up to but excluding floor((i+1)*64/B); they are pairwise
\* disjoint, together cover all 64 bits, and their widths differ by at most
\* one bit.
BlockPartition ==
  pc = "created" =>
    \A n \in 1..Len(permutations) :
      LET masks == permutations[n].forward_masks
          B == number_of_blocks
      IN /\ Len(masks) = B
         /\ \A i \in 0..(B - 1) :
              LET lo == (i * 64) \div B
                  hi == ((i + 1) * 64) \div B
              IN /\ lo < hi
                 /\ \E k \in 1..B : masks[k] = lo..(hi - 1)
         /\ \A k \in 1..B : \A l \in 1..B :
              k # l => masks[k] \cap masks[l] = {}
         /\ UNION {masks[k] : k \in 1..B} = 0..63
         /\ \A k \in 1..B : \A l \in 1..B :
              Cardinality(masks[k]) - Cardinality(masks[l]) <= 1

\* create has built blocks of two different widths, 64 not being a multiple
\* of the number of blocks
BlockPartitionWitness ==
  /\ pc = "created"
  /\ number_of_blocks > MaxBlocks /\ number_of_blocks < BITS
  /\ \E k \in 1..number_of_blocks : \E l \in 1..number_of_blocks :
       Cardinality(permutations[1].forward_masks[k])
         # Cardinality(permutations[1].forward_masks[l])

\* the binomial coefficient C(n, k)
RECURSIVE Binomial(_, _)
Binomial(n, k) ==
  IF k = 0 THEN 1 ELSE (Binomial(n, k - 1) * (n - k + 1)) \div k

\* the lowest bit of each of the first count masks of a permutation; a block
\* is known by its lowest bit, and a lower block has a lower one
LeadingBlocks(p, count) == [k \in 1..count |-> Min(p.forward_masks[k])]

\* the lowest bit of each mask after the first count masks
TrailingBlocks(p, count) ==
  [k \in 1..(Len(p.forward_masks) - count) |-> Min(p.forward_masks[count + k])]

\* s is strictly increasing
Increasing(s) == \A k \in 1..(Len(s) - 1) : s[k] < s[k + 1]

\* s comes before t in lexicographic order, s and t of one length
LexLess(s, t) ==
  \E k \in 1..Len(s) :
    /\ s[k] < t[k]
    /\ \A j \in 1..(k - 1) : s[j] = t[j]

\* C12: for valid (B, d) create returns exactly C(B, d) permutations, one for
\* each subset of B - d blocks, the subsets in lexicographic order with none
\* missed or repeated; each permutation lists its chosen blocks first, in
\* their original relative order, then the other blocks in their original
\* relative order.
PermutationFamily ==
  pc = "created" =>
    LET B == number_of_blocks
        count == number_of_blocks - different_bits
    IN /\ Len(permutations) = Binomial(B, different_bits)
       /\ \A n \in 1..Len(permutations) :
            /\ Len(permutations[n].forward_masks) = B
            /\ Increasing(LeadingBlocks(permutations[n], count))
            /\ Increasing(TrailingBlocks(permutations[n], count))
            /\ Cardinality({Min(permutations[n].forward_masks[k]) : k \in 1..B}) = B
       /\ \A n \in 1..(Len(permutations) - 1) :
            LexLess(LeadingBlocks(permutations[n], count),
                    LeadingBlocks(permutations[n + 1], count))
       /\ Cardinality({LeadingBlocks(permutations[n], count) :
                         n \in 1..Len(permutations)}) = Binomial(B, different_bits)

\* create(4, 2) has returned its six permutations, one of them with blocks
\* 0 and 2 chosen and block 1 moved behind them
PermutationFamilyWitness ==
  /\ pc = "created"
  /\ number_of_blocks = 4 /\ different_bits = 2
  /\ Len(permutations) = 6
  /\ \E n \in 1..Len(permutations) :
       /\ Min(permutations[n].forward_masks[1]) = 0
       /\ Min(permutations[n].forward_masks[2]) = 32
       /\ Min(permutations[n].forward_masks[3]) = 16

\* the sum of the widths of the first count blocks of a permutation
RECURSIVE LeadingWidth(_, _)
LeadingWidth(p, count) ==
  IF count = 0 THEN 0
  ELSE LeadingWidth(p, count - 1) + Cardinality(p.forward_masks[count])

\* C13: the search mask of every permutation has its top W bits set and its
\* bottom 64 - W bits clear, W being the sum of the widths of the first
\* B - d blocks in the permutation's order; its popcount is W and it covers
\* exactly the positions apply moves those leading blocks to.
SearchMaskCoversPrefix ==
  pc = "created" =>
    \A n \in 1..Len(permutations) :
      LET p == permutations[n]
          count == number_of_blocks - different_bits
          W == LeadingWidth(p, count)
      IN /\ search_mask(p) = (64 - W)..63
         /\ Cardinality(search_mask(p)) = W
         /\ search_mask(p) =
              UNION {apply(p, p.forward_masks[k]) : k \in 1..count}

\* two permutations of one family with search masks of different widths
SearchMaskWitness ==
  /\ pc = "created"
  /\ different_bits >= 1
  /\ \E n \in 1..Len(permutations) : \E m \in 1..Len(permutations) :
       /\ search_mask(permutations[n]) # search_mask(permutations[m])
       /\ search_mask(permutations[n]) # 0..63

\* C14: num_differing_bits(a, b) returns the number of set bits of a XOR b
\* for all 64-bit a and b: the result is symmetric, is 0 exactly when a = b
\* and never exceeds 64, and the loop ends after at most 64 iterations
\* (count counts the iterations made so far).
DifferingBitsIsPopcount ==
  /\ pc \in {"diff_loop", "diff_done"} =>
       /\ bits_count <= 64
       /\ bits_count + Cardinality(bits_n) = Hamming(bits_a, bits_b)
  /\ pc = "diff_done" =>
       /\ bits_count = Hamming(bits_a, bits_b)
       /\ bits_count = num_differing_bits(bits_a, bits_b)
       /\ bits_count = num_differing_bits(bits_b, bits_a)
       /\ (bits_count = 0 <=> bits_a = bits_b)

\* the loop has returned after 64 iterations, every bit differing
DifferingBitsWitness ==
  /\ pc = "diff_done"
  /\ bits_count = 64
  /\ bits_b = {}

\* C15: every pair (a, b) of the match set has a # b and both a and b in the
\* input set; a pair found under several permutations is stored once, the
\* match set holding it in one orientation only.
MatchesIrreflexive ==
  FindAllReturned =>
    \A m \in results :
      /\ m[1] # m[2]
      /\ m[1] \in hashes /\ m[2] \in hashes
      /\ <<m[2], m[1]>> \notin results

\* a returned pair whose two words share the searched prefix under two or
\* more permutations of the family
MatchesIrreflexiveWitness ==
  /\ pc = "find_all_done" /\ status = "ok"
  /\ \E m \in results :
       LET family == Families[<<number_of_blocks, different_bits>>]
       IN Cardinality({i \in 1..Len(family) :
            apply(family[i], m[1]) \cap search_mask(family[i])
              = apply(family[i], m[2]) \cap search_mask(family[i])}) >= 2

\* the running sums of the widths of a permutation's blocks: acc[k + 1] is
\* the summed width of its first k blocks
RECURSIVE LeadingWidths(_, _)
LeadingWidths(p, acc) ==
  IF Len(acc) > Len(p.forward_masks) THEN acc
  ELSE LeadingWidths(p, Append(acc, acc[Len(acc)]
                                      + Cardinality(p.forward_masks[Len(acc)])))

\* the bits of a word inside a mask, moved so that the mask starts at position to
Placed(h, mask, to) == {x - Min(mask) + to : x \in h \cap mask}

\* C16 as stated: the masks of a permutation are listed in the order the
\* blocks take from the low end to the high end of the permuted word, the
\* first mask occupying the lowest bits of apply(h) and the last the highest.
BlocksLowToHigh ==
  pc = "applied" =>
    \E p \in {permutations[perm_i]} :
      \E W \in {LeadingWidths(p, <<0>>)} :
        \A k \in 1..Len(p.forward_masks) :
          permuted \cap (W[k]..(W[k + 1] - 1))
            = Placed(word, p.forward_masks[k], W[k])

\* C16: the masks of a permutation are listed in the order the blocks take
\* from the high end to the low end of the permuted word: the first mask
\* occupies the highest bits of apply(h), the last mask the lowest, and the
\* k-th block lands just below the k - 1 blocks before it.
BlocksHighToLow ==
  pc = "applied" =>
    \E p \in {permutations[perm_i]} :
      \E W \in {LeadingWidths(p, <<0>>)} :
        \A k \in 1..Len(p.forward_masks) :
          permuted \cap ((64 - W[k + 1])..(63 - W[k]))
            = Placed(word, p.forward_masks[k], 64 - W[k + 1])

\* apply has moved a word with bits in the first and in the last block of a
\* permutation of three or more blocks
BlocksHighToLowWitness ==
  /\ pc = "applied"
  /\ number_of_blocks >= 3 /\ different_bits >= 1
  /\ word \cap permutations[perm_i].forward_masks[1] # {}
  /\ word \cap permutations[perm_i].forward_masks[number_of_blocks] # {}
  /\ 63 \in permuted /\ 63 \notin word
  /\ permuted # word

\* C18: for every permutation p of the family and all words a and b, the
\* number of differing bits of p.apply(a) and p.apply(b) equals that of a
\* and b.
DistanceInvariant ==
  pc = "paired" =>
    /\ num_differing_bits(permuted, permuted_b) = num_differing_bits(word, word_b)
    /\ Hamming(permuted, permuted_b) = Hamming(word, word_b)

\* a permutation of three or more blocks has moved two words that differ in
\* more than half of their bits
DistanceInvariantWitness ==
  /\ pc = "paired"
  /\ number_of_blocks >= 3 /\ different_bits >= 1
  /\ permuted # word /\ permuted_b # word_b
  /\ Hamming(word, word_b) > 32

\* positions v and w of the sorted buffer hold words with one masked prefix
SamePrefix(v, w) ==
  copy[v] \cap search_mask(permutations[perm_i])
    = copy[w] \cap search_mask(permutations[perm_i])

\* the sweep of the current permutation has reached the end of the buffer
SweepDone == pc = "sweep" /\ start > Len(copy)

\* C17: in each permutation, after the sort, the runs the sweep visits are
\* non-empty, disjoint and contiguous and cover the whole buffer; any two
\* elements with the same masked prefix lie in the same run and are given
\* to the distance test exactly once in that permutation.
PrefixRunSweep ==
  pc \in {"sweep", "parallel"} =>
    /\ \A k \in 1..Len(runs) :
         /\ runs[k][1] < runs[k][2]
         /\ runs[k][2] <= Len(copy) + 1
         /\ runs[k][1] = (IF k = 1 THEN 1 ELSE runs[k - 1][2])
         /\ \A v \in 1..Len(copy) : \A w \in 1..Len(copy) :
              (SamePrefix(v, w) /\ runs[k][1] <= v /\ v < runs[k][2])
                => (runs[k][1] <= w /\ w < runs[k][2])
    /\ tests = Cardinality(compared)
    /\ \A ab \in compared :
         /\ ab[1] < ab[2]
         /\ \E k \in 1..Len(runs) : runs[k][1] <= ab[1] /\ ab[2] < runs[k][2]
    /\ SweepDone =>
         /\ (IF Len(copy) = 0 THEN runs = <<>>
             ELSE runs # <<>> /\ runs[Len(runs)][2] = Len(copy) + 1)
         /\ compared = {vw \in (1..Len(copy)) \X (1..Len(copy)) :
                          vw[1] < vw[2] /\ SamePrefix(vw[1], vw[2])}

\* the sweep of a later permutation has ended after two or more runs, one of
\* them with a pair to test
PrefixRunSweepWitness ==
  /\ SweepDone
  /\ perm_i >= 2
  /\ Len(runs) >= 2
  /\ tests >= 1
  /\ Range(copy) # hashes

\* C19: the breadth-first search of find_clusters terminates for every
\* match set: in every cluster the frontier eventually becomes empty and
\* find_clusters returns; no vertex is put on the frontier more than twice
\* (once by the cluster's first vertex, once by a neighbour popped before
\* it); on return the frontier is empty and every vertex of the adjacency
\* map is marked visited.
BfsTerminates ==
  /\ [](pc \in {"clusters_loop", "bfs", "find_clusters_done"} =>
         \A v \in DOMAIN placed : placed[v] <= 2)
  /\ []((pc = "find_clusters_done" /\ status = "ok") =>
         /\ frontier = <<>>
         /\ DOMAIN visited = DOMAIN nodes
         /\ \A v \in DOMAIN nodes : visited[v])
  /\ (pc = "bfs") ~> (pc = "clusters_loop" /\ frontier = <<>>)
  /\ (pc = "find_all_done") ~> (pc = "find_clusters_done")

\* find_clusters has returned after a search that put a vertex on the
\* frontier a second time
BfsTerminatesWitness ==
  /\ pc = "find_clusters_done" /\ status = "ok"
  /\ \E v \in DOMAIN placed : placed[v] = 2
  /\ Len(clusters) >= 1

====
